---------------------------- MODULE Spec2Model ----------------------------
(***************************************************************************)
(* Verification model of the BlockVerify age-token core: the revocation    *)
(* endpoint and Merkle root (backend/app/revocation.py, jobs.py), the      *)
(* token issuer and verifiers of the backend (token.py, verify.py,         *)
(* main.py, chain.py) and the standalone API (simple_api.py).              *)
(*                                                                         *)
(* Byte strings and text are sequences of integers.  SHA-256 is modelled   *)
(* as a collision-free bracket around its input (-1 ... -2), hex text as   *)
(* the raw bytes behind the marker -3, so that digest, hexdigest, fromhex  *)
(* and concatenation are all distinguishable and none is the identity.     *)
(***************************************************************************)
EXTENDS Integers, Sequences, FiniteSets, TLC

\* ------------------------------------------------------------------ bounds
\* number of distinct token hashes a client may ask to revoke
NumHashes == 2
\* cap on the rows of the Revoked table
MaxRevoked == 3
\* revoke requests served while the backend also mints and verifies
MaxBackRevoked == 1
\* verifications a month the plan of the client allows (1000 for the free
\* plan, scaled)
PlanLimit == 1
\* cap on the rows of the usage-record table
MaxRequests == 3
\* clock ticks per day of the billing calendar
TicksPerDay == 2
\* the billing calendar stops after this many days
MaxDays == 32
\* active API keys a client may hold (5 in api_clients.py, scaled)
KeyLimit == 2
\* cap on the rows of the API-key table of the client
MaxApiKeys == 3
\* requests an API key may make per window (APIKey.rate_limit, 1000, scaled)
RateLimit == 1
\* cap on the requests the gateway admits over a run
MaxAdmitted == 3
\* largest monthly_quota a company is given (10000 by default, scaled)
MaxQuota == 5
\* cap on the API calls tracked for the company
MaxCalls == 11
\* clock ticks per second (time.time() is finer than the whole seconds of iat/exp)
TicksPerSec == 2
\* revoke-all requests served by simple_api
MaxBumps == 1
\* tokens handed out by simple_api
MaxIssued == 2
\* keypairs generated over the life of a deployment
MaxKeys == 3
\* the clock stops after this many seconds
MaxSecs == 3
\* token lifetime in model seconds (timedelta(days=365) in token.py, scaled)
LifetimeSecs == 1
\* jwcrypto's default leeway for exp in model seconds (60 s, scaled)
LeewaySecs == 1

VARIABLES
    revoked,      \* Revoked table: sequence of token_hash strings, in id order
    chainRoot,    \* revocation root last published on the bulletin contract
    wpc,          \* per worker: position inside revoke_token
    whash,        \* per worker: the token_hash argument of the request
    wsnap,        \* per worker: token_hashes read back from the table
    wroot,        \* per worker: new_root computed from wsnap
    wresp,        \* per worker: last HTTP response of revoke_token
    abandoned,    \* history: hashes whose publish did not go through since the
                  \* last transaction that was sent
    jpc,          \* update_revocation_root job: position
    jleaves,      \* update_revocation_root job: leaves read from the table
    jout,         \* update_revocation_root job: outcome of the last run
    now,          \* wall clock, in ticks of 1/TicksPerSec second
    issued,       \* serialized tokens handed to devices by the backend
    devices,      \* Device table: rows [id, token_hash]
    chainThumb,   \* thumbprint last published on the bulletin contract
    resp,         \* response of the last request, until it is sent
    REVOKED_TOKENS,            \* simple_api: set of revoked token strings
    REVOKED_DEVICES,           \* simple_api: set of revoked device ids
    CURRENT_TOKEN_GENERATION,  \* simple_api: generation counter
    mintGeneration,            \* history: generation current when a token was handed out
    keyFile,      \* the issuer key file on disk: [content, key]
    loadedKey,    \* the keypair the running process holds (0: none)
    proc,         \* which application is running: "down", "backend", "simple"
    keysMade,     \* keypairs generated so far
    monthly_usage,     \* SimpleClient.monthly_usage of the one client
    usage_reset_date,  \* SimpleClient.usage_reset_date, in ticks of the calendar
    usage_records,     \* number of SimpleUsageRecord rows
    utcnow,            \* datetime.utcnow() of the billing service, in ticks
    lastReset,         \* history: when monthly_usage was last reset (-1: never)
    bpc,               \* per worker: position inside verify_token_with_billing
    bclient,           \* per worker: monthly_usage of the client row its session holds
    bresp,             \* per worker: status code of its last response (0: none)
    api_keys,          \* SimpleAPIKey rows of the client: is_active, in id order
    kpc,               \* per worker: position inside create_api_key / revoke_api_key
    ktarget,           \* per worker: the row revoke_api_key is about to deactivate
    kresp,             \* per worker: status code of its last key request (0: none)
    key_is_active,     \* production_api: APIKey.is_active of the one key
    subscription_status,  \* production_api: Company.subscription_status
    auth_cache,        \* production_api: the Redis entry api_key:<hash> exists
    rate_count,        \* production_api: the Redis counter rate_limit:<id> (0: no key)
    admitted,          \* history: requests admitted in the current window
    gpc,               \* per worker: position inside verify_api_key_and_rate_limit
    gread,             \* per worker: current_requests as read from Redis (0: None)
    gresp,             \* per worker: status code of its last gateway answer (0: none)
    monthly_quota,     \* usage_tracker: Company.monthly_quota
    current_usage,     \* usage_tracker: Company.current_usage
    alerts_sent,       \* history: notifications sent, per alert level
    apc                \* per worker: position inside track_api_usage

workVars == <<wpc, whash, wsnap, wroot, wresp, abandoned>>
jobVars == <<jpc, jleaves, jout>>
tableVars == <<revoked, chainRoot>>
backVars == <<now, issued, devices, chainThumb, resp>>

simVars == <<REVOKED_TOKENS, REVOKED_DEVICES, CURRENT_TOKEN_GENERATION, mintGeneration>>

keyVars == <<keyFile, loadedKey, proc, keysMade>>

billVars == <<monthly_usage, usage_reset_date, usage_records, utcnow, lastReset,
              bpc, bclient, bresp>>

akVars == <<api_keys, kpc, ktarget, kresp>>

gateVars == <<key_is_active, subscription_status, auth_cache, rate_count, admitted,
              gpc, gread, gresp>>

alertVars == <<monthly_quota, current_usage, alerts_sent, apc>>

\* the state of the services around the token core
svcVars == <<billVars, akVars, gateVars, alertVars>>

\* the state of the token core
coreVars == <<tableVars, workVars, jobVars, backVars, simVars, keyVars>>

vars == <<coreVars, svcVars>>

\* what the billing, key, gateway and tracker actions each leave alone
nonBillVars == <<coreVars, akVars, gateVars, alertVars>>

nonAkVars == <<coreVars, billVars, gateVars, alertVars>>

nonGateVars == <<coreVars, billVars, akVars, alertVars>>

nonAlertVars == <<coreVars, billVars, akVars, gateVars>>

\* what the actions of the concurrent revocation model leave alone
nonRevVars == <<backVars, simVars, keyVars, svcVars>>

\* what the actions of the backend request model leave alone
nonBackVars == <<workVars, jobVars, svcVars, simVars, keyVars>>

\* what the request handlers of simple_api leave alone
nonSimVars == <<revoked, chainRoot, workVars, jobVars, svcVars, devices, keyVars>>

\* ------------------------------------------------------- bytes and hashing
\* hashlib.sha256(x).digest(): an injective bracket around the input
Sha256(x) == <<-1>> \o x \o <<-2>>

\* bytes.hex() / hexdigest(): the hex text of raw bytes
Hex(x) == <<-3>> \o x

IsHex(s) == Len(s) > 0 /\ s[1] = -3

\* bytes.fromhex(s): the raw bytes behind hex text (ValueError when not hex)
FromHex(s) == Tail(s)

\* str.encode(): the ASCII bytes of a text; hex text stays hex text
Encode(s) == s

\* b"\x00" * 32
ZeroRoot == <<0, 0>>

\* lexicographic order of byte strings, as Python compares bytes
RECURSIVE BytesLess(_, _)
BytesLess(a, b) ==
    IF Len(b) = 0 THEN FALSE
    ELSE IF Len(a) = 0 THEN TRUE
    ELSE IF a[1] # b[1] THEN a[1] < b[1]
    ELSE BytesLess(Tail(a), Tail(b))

\* the elements of a sequence
Range(f) == {f[i] : i \in DOMAIN f}

\* a sequence reordered by a permutation of its indices
Permuted(s, p) == [i \in DOMAIN s |-> s[p[i]]]

\* [bytes.fromhex(r.token_hash) for r in rows]
FromHexAll(rows) == [i \in DOMAIN rows |-> FromHex(rows[i])]

\* sorted(leaves)
sorted(leaves) == SortSeq(leaves, BytesLess)

\* ------------------------------------------------ revocation.py MerkleTree
\* one pass of the while loop of MerkleTree._build_tree: pair adjacent nodes,
\* the last node paired with itself when the level is odd
NextLevel(level) ==
    [k \in 1..((Len(level) + 1) \div 2) |->
        LET left  == level[2 * k - 1]
            right == IF 2 * k <= Len(level) THEN level[2 * k] ELSE left
        IN  Sha256(left \o right)]

\* a tree builder that runs the pairing pass before testing the loop condition
RECURSIVE BuildTreePassFirst(_)
BuildTreePassFirst(level) ==
    LET up == NextLevel(level)
    IN  IF Len(up) > 1 THEN BuildTreePassFirst(up) ELSE up

\* MerkleTree._build_tree: the last level built (tree[-1])
RECURSIVE BuildTree(_)
BuildTree(level) ==
    IF Len(level) > 1 THEN BuildTree(NextLevel(level)) ELSE level

\* MerkleTree(leaves).root
MerkleTreeRoot(leaves) ==
    IF leaves = <<>> THEN ZeroRoot
    ELSE BuildTree([i \in 1..Len(leaves) |-> Sha256(Encode(leaves[i]))])[1]

\* ---------------------------------------------------- jobs.py _merkle_root
\* one pass of the while loop of _merkle_root: duplicate the odd last node,
\* then hash the pairs
JobNextLevel(level) ==
    LET padded == IF Len(level) % 2 = 1
                  THEN Append(level, level[Len(level)]) ELSE level
    IN  [k \in 1..(Len(padded) \div 2) |->
            Sha256(padded[2 * k - 1] \o padded[2 * k])]

RECURSIVE JobReduce(_)
JobReduce(level) ==
    IF Len(level) > 1 THEN JobReduce(JobNextLevel(level)) ELSE level

\* _merkle_root(leaves)
merkle_root(leaves) ==
    IF leaves = <<>> THEN ZeroRoot
    ELSE JobReduce([i \in 1..Len(leaves) |-> Sha256(leaves[i])])[1]

\* ------------------------------------------------------------ request data
\* token_hash values a client sends: hex SHA-256 digests of serialized tokens
HashInputs == {Hex(Sha256(<<t>>)) : t \in 1..NumHashes}

\* two web workers serve revoke-token requests concurrently
Workers == {1, 2}

NoResp == [status |-> "none", total_revoked |-> 0]

\* ----------------------------------------------- revocation.py revoke_token
\* a commit that keeps only the newest row
revoke_commit_replacing(w, h) ==
    /\ wpc[w] = "idle"
    /\ Len(revoked) < MaxRevoked
    /\ revoked' = <<h>>
    /\ wpc' = [wpc EXCEPT ![w] = "committed"]
    /\ whash' = [whash EXCEPT ![w] = h]
    /\ wresp' = [wresp EXCEPT ![w] = NoResp]
    /\ UNCHANGED <<chainRoot, wsnap, wroot, abandoned, jpc, jleaves, jout>>
    /\ UNCHANGED nonRevVars

\* lines 52-57: session.add(Revoked(token_hash)); session.commit()
revoke_commit(w, h) ==
    /\ wpc[w] = "idle"
    /\ Len(revoked) < MaxRevoked
    /\ revoked' = Append(revoked, h)
    /\ wpc' = [wpc EXCEPT ![w] = "committed"]
    /\ whash' = [whash EXCEPT ![w] = h]
    /\ wresp' = [wresp EXCEPT ![w] = NoResp]
    /\ UNCHANGED <<chainRoot, wsnap, wroot, abandoned, jpc, jleaves, jout>>
    /\ UNCHANGED nonRevVars

\* lines 60-65: read every row back and build the tree over them
revoke_query(w) ==
    /\ wpc[w] = "committed"
    /\ wsnap' = [wsnap EXCEPT ![w] = revoked]
    /\ wroot' = [wroot EXCEPT ![w] = MerkleTreeRoot(revoked)]
    /\ wpc' = [wpc EXCEPT ![w] = "queried"]
    /\ UNCHANGED <<revoked, chainRoot, whash, wresp, abandoned, jpc, jleaves, jout>>
    /\ UNCHANGED nonRevVars

\* lines 68-85: setRevocationRoot(new_root) is sent; the handler returns 200
revoke_publish(w) ==
    /\ wpc[w] = "queried"
    /\ chainRoot' = wroot[w]
    /\ wresp' = [wresp EXCEPT ![w] =
                    [status |-> "revoked", total_revoked |-> Len(wsnap[w])]]
    /\ wpc' = [wpc EXCEPT ![w] = "idle"]
    /\ whash' = [whash EXCEPT ![w] = <<>>]
    /\ wsnap' = [wsnap EXCEPT ![w] = <<>>]
    /\ wroot' = [wroot EXCEPT ![w] = <<>>]
    /\ abandoned' = {}
    /\ UNCHANGED <<revoked, jpc, jleaves, jout>>
    /\ UNCHANGED nonRevVars

\* lines 86-87: building, signing or sending the transaction raised; the
\* handler answers 500 and the row stays committed
revoke_publish_failed(w) ==
    /\ wpc[w] = "queried"
    /\ wresp' = [wresp EXCEPT ![w] =
                    [status |-> "500", total_revoked |-> 0]]
    /\ wpc' = [wpc EXCEPT ![w] = "idle"]
    /\ whash' = [whash EXCEPT ![w] = <<>>]
    /\ wsnap' = [wsnap EXCEPT ![w] = <<>>]
    /\ wroot' = [wroot EXCEPT ![w] = <<>>]
    /\ abandoned' = abandoned \cup {whash[w]}
    /\ UNCHANGED <<revoked, chainRoot, jpc, jleaves, jout>>
    /\ UNCHANGED nonRevVars

\* the worker is stopped after line 57 (shutdown, client gone, timeout): the
\* row is committed, no transaction is sent and no response is written
revoke_abandoned(w) ==
    /\ wpc[w] \in {"committed", "queried"}
    /\ wpc' = [wpc EXCEPT ![w] = "idle"]
    /\ whash' = [whash EXCEPT ![w] = <<>>]
    /\ wsnap' = [wsnap EXCEPT ![w] = <<>>]
    /\ wroot' = [wroot EXCEPT ![w] = <<>>]
    /\ abandoned' = abandoned \cup {whash[w]}
    /\ UNCHANGED <<revoked, chainRoot, wresp, jpc, jleaves, jout>>
    /\ UNCHANGED nonRevVars

\* --------------------------------------------- jobs.py update_revocation_root
\* lines 39-44: read the rows, bytes.fromhex each; return when there are none
job_read ==
    /\ jpc = "idle"
    /\ IF revoked = <<>>
       THEN /\ jout' = "nothing"
            /\ UNCHANGED <<jpc, jleaves>>
       ELSE IF \E i \in 1..Len(revoked) : ~IsHex(revoked[i])
       THEN /\ jout' = "ValueError"
            /\ UNCHANGED <<jpc, jleaves>>
       ELSE /\ jleaves' = FromHexAll(revoked)
            /\ jpc' = "read"
            /\ jout' = "running"
    /\ UNCHANGED <<revoked, chainRoot, workVars>>
    /\ UNCHANGED nonRevVars

\* line 46: the root the job computes over what it read
JobRoot(leaves) == merkle_root(sorted(leaves))

\* lines 46-56: root over the sorted leaves, sent to setRevocationRoot
job_publish ==
    /\ jpc = "read"
    /\ chainRoot' = JobRoot(jleaves)
    /\ jpc' = "idle"
    /\ jleaves' = <<>>
    /\ jout' = "published"
    /\ abandoned' = {}
    /\ UNCHANGED <<revoked, wpc, whash, wsnap, wroot, wresp>>
    /\ UNCHANGED nonRevVars

\* lines 48-56: the transaction could not be built, signed or sent
job_publish_failed ==
    /\ jpc = "read"
    /\ jpc' = "idle"
    /\ jleaves' = <<>>
    /\ jout' = "failed"
    /\ UNCHANGED <<revoked, chainRoot, workVars>>
    /\ UNCHANGED nonRevVars

\* ------------------------------------------------------ token.py: the key
\* _key: the issuer's Ed25519 key of token.py lines 6-10
IssuerKey == 1

\* a key the issuer does not hold
ForgerKey == IssuerKey + 1

\* base64url without padding
B64Url(x) == <<-4>> \o x

\* the raw 32 bytes of the public key
RawPublic(k) == <<k>>

\* key.export_public(): the JSON text of the public members of a key
PublicJwk(k) == <<-7>> \o B64Url(RawPublic(k))

\* _kid = _key.thumbprint(): base64url of the SHA-256 of the public members
KeyThumbprint(k) == B64Url(Sha256(Encode(PublicJwk(k))))

\* jwk.JWK.from_json(open(key_path).read()) succeeds
KeyFileParses == keyFile.content = "jwk"

\* get_public_key(): verify.py lines 15-22, the key read from the file
get_public_key == keyFile.key

\* chain.py current_thumbprint(): SHA-256 digest of the exported public key,
\* read from the key file at every call
current_thumbprint == Sha256(Encode(PublicJwk(keyFile.key)))

\* ------------------------------------------------- compact JWS wire format
\* header "." payload "." signature; -5 is the dot
Compact(header, payload, sig) == header \o <<-5>> \o payload \o <<-5>> \o sig

\* the Ed25519 signature of key k over header "." payload
Sign(k, header, payload) == <<-6, k, Len(header)>> \o header \o payload

Dots(t) == {i \in 1..Len(t) : t[i] = -5}

IsCompact(t) == Cardinality(Dots(t)) = 2

FirstDot(t) == CHOOSE i \in Dots(t) : \A j \in Dots(t) : i <= j

LastDot(t) == CHOOSE i \in Dots(t) : \A j \in Dots(t) : j <= i

HeaderOf(t) == SubSeq(t, 1, FirstDot(t) - 1)

PayloadOf(t) == SubSeq(t, FirstDot(t) + 1, LastDot(t) - 1)

SignatureOf(t) == SubSeq(t, LastDot(t) + 1, Len(t))

\* json.loads(claims): the payload is the four claims mint writes
ClaimsOf(t) ==
    LET pl == PayloadOf(t)
    IN  [ageOver |-> pl[1], device |-> pl[2], iat |-> pl[3], exp |-> pl[4]]

\* sha256(tok.encode()).hexdigest()
TokenHash(t) == Hex(Sha256(Encode(t)))

\* ----------------------------------------------------------- the clock
\* time.time() and datetime.utcnow().timestamp(), in ticks
time_time == now

\* int(datetime.timestamp()): whole seconds
IntSeconds(ticks) == ticks \div TicksPerSec

\* --------------------------------------------------------- token.py mint
AgeOver == 18

\* a mint that writes the mint time itself as exp
mint_without_lifetime(device_hash) ==
    LET header  == KeyThumbprint(loadedKey)
        exp     == time_time
        payload == <<AgeOver, device_hash, IntSeconds(time_time), IntSeconds(exp)>>
    IN  Compact(header, payload, Sign(loadedKey, header, payload))

\* mint(device_hash): claims signed with _key, kid in the header
mint(device_hash) ==
    LET header  == KeyThumbprint(loadedKey)
        exp     == time_time + LifetimeSecs * TicksPerSec
        payload == <<AgeOver, device_hash, IntSeconds(time_time), IntSeconds(exp)>>
    IN  Compact(header, payload, Sign(loadedKey, header, payload))

\* jwt.JWT(key=key, jwt=token) of jwcrypto: parse, verify the signature with
\* the key, then the default check of exp against time.time() with leeway
JwtDeserialize(key, t) ==
    IF ~IsCompact(t) \/ Len(PayloadOf(t)) # 4 THEN "ValueError"
    ELSE IF SignatureOf(t) # Sign(key, HeaderOf(t), PayloadOf(t))
         THEN "InvalidJWSSignature"
    ELSE IF ClaimsOf(t).exp * TicksPerSec < time_time - LeewaySecs * TicksPerSec
         THEN "JWTExpired"
    ELSE "ok"

NoPayload == [age |-> 0, device_id |-> 0, issued_at |-> 0, expires_at |-> 0]

Response(op, t, valid, error, payload) ==
    [op |-> op, token |-> t, valid |-> valid, error |-> error, payload |-> payload]

\* --------------------------------------------------------- token.py verify
\* a verify that returns exp as issued_at and iat as expires_at
verify_result_swapped(t) ==
    LET parsed == JwtDeserialize(loadedKey, t)
    IN  IF parsed # "ok"
        THEN Response("verify", t, FALSE, parsed, NoPayload)
        ELSE IF ClaimsOf(t).exp * TicksPerSec < time_time
        THEN Response("verify", t, FALSE, "Token expired", NoPayload)
        ELSE Response("verify", t, TRUE, "",
                      [age |-> ClaimsOf(t).ageOver,
                       device_id |-> ClaimsOf(t).device,
                       issued_at |-> ClaimsOf(t).exp,
                       expires_at |-> ClaimsOf(t).iat])

\* verify(token_string): lines 21-42
verify_result(t) ==
    LET parsed == JwtDeserialize(loadedKey, t)
    IN  IF parsed # "ok"
        THEN Response("verify", t, FALSE, parsed, NoPayload)
        ELSE IF ClaimsOf(t).exp * TicksPerSec < time_time
        THEN Response("verify", t, FALSE, "Token expired", NoPayload)
        ELSE Response("verify", t, TRUE, "",
                      [age |-> ClaimsOf(t).ageOver,
                       device_id |-> ClaimsOf(t).device,
                       issued_at |-> ClaimsOf(t).iat,
                       expires_at |-> ClaimsOf(t).exp])

\* ------------------------------------------------- verify.py verify_token
\* an integrity check against the value the anchor held when the process
\* started, kept from then on
verify_thumbprint_integrity_cached(anchorUp) ==
    anchorUp /\ KeyFileParses /\ ZeroRoot = current_thumbprint

\* verify_thumbprint_integrity(): lines 24-31; an unreachable anchor is False
verify_thumbprint_integrity(anchorUp) ==
    anchorUp /\ KeyFileParses /\ chainThumb = current_thumbprint

\* a verify_token whose expiry test excludes the instant exp itself
verify_token_result_strict(t, apiKeyOk, anchorUp) ==
    IF ~apiKeyOk
    THEN Response("verify_token", t, FALSE, "Invalid or inactive API key", NoPayload)
    ELSE IF ~verify_thumbprint_integrity(anchorUp)
    THEN Response("verify_token", t, FALSE,
                  "Key integrity check failed - contact issuer", NoPayload)
    ELSE IF JwtDeserialize(get_public_key, t) # "ok"
    THEN Response("verify_token", t, FALSE, "Invalid token", NoPayload)
    ELSE IF time_time >= ClaimsOf(t).exp * TicksPerSec
    THEN Response("verify_token", t, FALSE, "Expired token", NoPayload)
    ELSE Response("verify_token", t, TRUE, "",
                  [age |-> ClaimsOf(t).ageOver,
                   device_id |-> ClaimsOf(t).device,
                   issued_at |-> ClaimsOf(t).iat,
                   expires_at |-> ClaimsOf(t).exp])

\* verify_token(token, x_api_key): lines 33-75
verify_token_result(t, apiKeyOk, anchorUp) ==
    IF ~apiKeyOk
    THEN Response("verify_token", t, FALSE, "Invalid or inactive API key", NoPayload)
    ELSE IF ~verify_thumbprint_integrity(anchorUp)
    THEN Response("verify_token", t, FALSE,
                  "Key integrity check failed - contact issuer", NoPayload)
    ELSE IF JwtDeserialize(get_public_key, t) # "ok"
    THEN Response("verify_token", t, FALSE, "Invalid token", NoPayload)
    ELSE IF time_time > ClaimsOf(t).exp * TicksPerSec
    THEN Response("verify_token", t, FALSE, "Expired token", NoPayload)
    ELSE Response("verify_token", t, TRUE, "",
                  [age |-> ClaimsOf(t).ageOver,
                   device_id |-> ClaimsOf(t).device,
                   issued_at |-> ClaimsOf(t).iat,
                   expires_at |-> ClaimsOf(t).exp])

\* ------------------------------------------------------- what clients send
\* SHA-256 hex digests of the credential public keys of two devices
DeviceHashes == {1, 2}

\* a token whose exp claim was raised, with the signature left as it was
Tampered(t) ==
    LET pl == PayloadOf(t)
    IN  Compact(HeaderOf(t), [pl EXCEPT ![4] = pl[4] + 1], SignatureOf(t))

\* text that is no compact JWS
Garbage == <<7>>

TokenPool == issued \cup {Tampered(t) : t \in issued} \cup {Garbage}

\* no response is waiting to be sent: the server takes the next request
Idle == resp.op = "none"

\* the application app is up and takes the next request
Serving(app) == Idle /\ proc = app

\* ------------------------------------------------------------ the requests
\* main.py webauthn_register: lines 189-210
webauthn_register(dev) ==
    LET tok == mint(dev)
    IN  /\ Serving("backend")
        /\ IF \E row \in devices : row.id = dev
           THEN \* the Device primary key exists: commit raises, no token is returned
                /\ resp' = Response("register", <<>>, FALSE, "IntegrityError", NoPayload)
                /\ UNCHANGED <<issued, devices>>
           ELSE /\ devices' = devices \cup {[id |-> dev, token_hash |-> TokenHash(tok)]}
                /\ issued' = issued \cup {tok}
                /\ resp' = Response("register", tok, TRUE, "", NoPayload)
        /\ UNCHANGED <<now, chainThumb, tableVars, nonBackVars>>

\* a verify_token that puts the hash of a token it rejects on the Revoked table
verify_token_blocking(t, apiKeyOk, anchorUp) ==
    /\ Serving("backend")
    /\ resp' = verify_token_result(t, apiKeyOk, anchorUp)
    /\ revoked' = IF resp'.valid THEN revoked ELSE Append(revoked, TokenHash(t))
    /\ UNCHANGED <<now, issued, devices, chainThumb, chainRoot, nonBackVars>>

\* POST /verify-token (verify.py)
verify_token(t, apiKeyOk, anchorUp) ==
    /\ Serving("backend")
    /\ resp' = verify_token_result(t, apiKeyOk, anchorUp)
    /\ UNCHANGED <<now, issued, devices, chainThumb, tableVars, nonBackVars>>

\* token.verify, as POST /api/v1/verify-token calls it (verify_with_billing.py line 70)
verify(t) ==
    /\ Serving("backend")
    /\ resp' = verify_result(t)
    /\ UNCHANGED <<now, issued, devices, chainThumb, tableVars, nonBackVars>>

\* POST /revocation/revoke-token (revocation.py lines 43-87), one request alone
revoke_token(token_hash, sent) ==
    /\ Serving("backend")
    /\ Len(revoked) < MaxBackRevoked
    /\ revoked' = Append(revoked, token_hash)
    /\ IF sent
       THEN /\ chainRoot' = MerkleTreeRoot(revoked')
            /\ resp' = Response("revoke", token_hash, TRUE, "", NoPayload)
       ELSE /\ UNCHANGED chainRoot
            /\ resp' = Response("revoke", token_hash, FALSE,
                                "Failed to update on-chain revocation", NoPayload)
    /\ UNCHANGED <<now, issued, devices, chainThumb, nonBackVars>>

\* chain.py push_thumbprint: lines 47-59
push_thumbprint ==
    /\ Idle
    /\ KeyFileParses
    /\ chainThumb # current_thumbprint
    /\ chainThumb' = current_thumbprint
    /\ UNCHANGED <<now, issued, devices, resp, tableVars, nonBackVars>>

\* another publisher writes the thumbprint of its own key on the contract
foreign_setThumbprint ==
    /\ Idle
    /\ chainThumb # Sha256(Encode(PublicJwk(ForgerKey)))
    /\ chainThumb' = Sha256(Encode(PublicJwk(ForgerKey)))
    /\ UNCHANGED <<now, issued, devices, resp, tableVars, nonBackVars>>

\* time passes
tick ==
    /\ Idle
    /\ now < MaxSecs * TicksPerSec
    /\ now' = now + 1
    /\ UNCHANGED <<issued, devices, chainThumb, resp, tableVars, nonBackVars>>

\* the response of the handler goes out to the client
send_response ==
    /\ ~Idle
    /\ resp' = Response("none", <<>>, FALSE, "", NoPayload)
    /\ UNCHANGED <<now, issued, devices, chainThumb, tableVars, nonBackVars>>

BackInitVars ==
    /\ now = 0
    /\ issued = {}
    /\ devices = {}
    /\ chainThumb = ZeroRoot
    /\ resp = Response("none", <<>>, FALSE, "", NoPayload)
    /\ REVOKED_TOKENS = {}
    /\ REVOKED_DEVICES = {}
    /\ CURRENT_TOKEN_GENERATION = 1
    /\ mintGeneration = <<>>

\* ------------------------------------------------------------ simple_api.py
\* ISSUER_THUMBPRINT: hex SHA-256 of the raw public key bytes (lines 72-77)
ISSUER_THUMBPRINT == Hex(Sha256(RawPublic(loadedKey)))

\* "BlockVerify" and "adult-sites", the iss and aud claims
IssClaim == 1

AudClaim == 2

\* create_jwt_token(device_id, age_over): lines 962-992; jti is a fresh random
\* value like device_id, and one draw stands for both
create_jwt_token(device_id, age_over) ==
    LET header  == SubSeq(ISSUER_THUMBPRINT, 1, 2)
        exp     == time_time + LifetimeSecs * TicksPerSec
        payload == <<age_over, device_id, IntSeconds(time_time), IntSeconds(exp),
                     IssClaim, AudClaim, device_id>>
    IN  Compact(header, payload, Sign(loadedKey, header, payload))

\* base64 of a JSON object {device, ageOver, iat, exp}: the old token format
LegacyToken(device, age_over, iat, exp) == <<-8, device, age_over, iat, exp>>

\* the same with a "generation" member
LegacyTokenGen(device, age_over, iat, exp, generation) ==
    <<-8, device, age_over, iat, exp, generation>>

\* json.loads(base64.b64decode(token).decode()) succeeds
IsLegacy(t) == Len(t) \in {5, 6} /\ t[1] = -8

\* token_data.get("generation", 0)
LegacyGeneration(t) == IF Len(t) = 6 THEN t[6] ELSE 0

\* jwt.decode(token, public_key, algorithms=["EdDSA"], audience=, issuer=) of
\* PyJWT, lines 764-770.  At the instants from exp up to the end of that
\* second the verdict on exp differs between PyJWT releases: byRelease
\* stands for it.
PyJwtDecode(t, byRelease) ==
    IF ~IsCompact(t) \/ Len(PayloadOf(t)) # 7 THEN "DecodeError"
    ELSE IF SignatureOf(t) # Sign(loadedKey, HeaderOf(t), PayloadOf(t))
         THEN "InvalidSignatureError"
    ELSE IF \/ time_time >= (PayloadOf(t)[4] + 1) * TicksPerSec
            \/ time_time >= PayloadOf(t)[4] * TicksPerSec /\ byRelease
         THEN "ExpiredSignatureError"
    ELSE IF PayloadOf(t)[6] # AudClaim THEN "InvalidAudienceError"
    ELSE IF PayloadOf(t)[5] # IssClaim THEN "InvalidIssuerError"
    ELSE "ok"

\* get_current_generation(): lines 284-286
get_current_generation == CURRENT_TOKEN_GENERATION

\* verify_token(request): lines 743-818
simple_verify_result(t, byRelease) ==
    IF t = <<>>
    THEN Response("simple_verify", t, FALSE, "No token provided", NoPayload)
    ELSE IF t \in REVOKED_TOKENS
    THEN Response("simple_verify", t, FALSE, "Token has been revoked", NoPayload)
    ELSE IF PyJwtDecode(t, byRelease) = "ok"
    THEN Response("simple_verify", t, TRUE, "",
                  [age |-> PayloadOf(t)[1], device_id |-> PayloadOf(t)[2],
                   issued_at |-> PayloadOf(t)[3], expires_at |-> PayloadOf(t)[4]])
    ELSE IF ~IsLegacy(t)
    THEN Response("simple_verify", t, FALSE, "binascii.Error", NoPayload)
    ELSE IF t[2] \in REVOKED_DEVICES
    THEN Response("simple_verify", t, FALSE, "Device has been revoked", NoPayload)
    ELSE IF LegacyGeneration(t) < get_current_generation
    THEN Response("simple_verify", t, FALSE, "Token generation is outdated", NoPayload)
    ELSE IF time_time > t[5] * TicksPerSec
    THEN Response("simple_verify", t, FALSE, "Token expired", NoPayload)
    ELSE Response("simple_verify", t, TRUE, "",
                  [age |-> t[3], device_id |-> t[2],
                   issued_at |-> t[4], expires_at |-> t[5]])

\* device ids that secrets.token_hex has not produced yet
FreshDevices == {d \in DeviceHashes : \A t \in issued : IsLegacy(t) \/ PayloadOf(t)[2] # d}

\* old-format tokens a client can write itself, with any generation it likes
CraftedTokens ==
    {LegacyTokenGen(1, AgeOver, 0, MaxSecs, g) : g \in 1..(MaxBumps + 1)}

SimplePool ==
    issued \cup {Tampered(t) : t \in {u \in issued : ~IsLegacy(u)}}
           \cup CraftedTokens \cup {Garbage}

\* push_thumbprint_to_blockchain(thumbprint): lines 233-271; sent is FALSE
\* when the blockchain is not enabled, no contract is set or building, signing
\* or sending the transaction raises: the function then returns None
push_thumbprint_to_blockchain(thumbprint, sent) ==
    chainThumb' = IF sent THEN FromHex(thumbprint) ELSE chainThumb

\* POST /webauthn/register: lines 680-741; push_to_blockchain is the field of
\* that name in the request
simple_webauthn_register(device_id, push_to_blockchain, sent) ==
    LET token == create_jwt_token(device_id, AgeOver)
    IN  /\ Serving("simple")
        /\ Cardinality(issued) < MaxIssued
        /\ issued' = issued \cup {token}
        /\ mintGeneration' = (token :> CURRENT_TOKEN_GENERATION) @@ mintGeneration
        /\ IF push_to_blockchain
           THEN push_thumbprint_to_blockchain(ISSUER_THUMBPRINT, sent)
           ELSE UNCHANGED chainThumb
        /\ resp' = Response("simple_register", token, TRUE, "", NoPayload)
        /\ UNCHANGED <<now, REVOKED_TOKENS, REVOKED_DEVICES,
                       CURRENT_TOKEN_GENERATION, nonSimVars>>

\* GET /debug/create-token: lines 820-849
debug_create_token(device_id) ==
    LET token == LegacyToken(device_id, AgeOver, IntSeconds(time_time),
                             IntSeconds(time_time + LifetimeSecs * TicksPerSec))
    IN  /\ Serving("simple")
        /\ token \notin issued
        /\ Cardinality(issued) < MaxIssued
        /\ issued' = issued \cup {token}
        /\ mintGeneration' = (token :> CURRENT_TOKEN_GENERATION) @@ mintGeneration
        /\ resp' = Response("debug_create_token", token, TRUE, "", NoPayload)
        /\ UNCHANGED <<now, chainThumb, REVOKED_TOKENS, REVOKED_DEVICES,
                       CURRENT_TOKEN_GENERATION, nonSimVars>>

\* POST /verify-token
simple_verify_token(t, byRelease) ==
    /\ Serving("simple")
    /\ resp' = simple_verify_result(t, byRelease)
    /\ UNCHANGED <<now, issued, chainThumb, simVars, nonSimVars>>

\* POST /admin/revoke-token: lines 879-907; <<>> and 0 stand for a field the
\* request leaves out
simple_revoke_token(token, device_id) ==
    /\ Serving("simple")
    /\ token # <<>> \/ device_id # 0
    /\ token \in REVOKED_TOKENS \cup {<<>>} \/ Cardinality(REVOKED_TOKENS) < MaxBackRevoked
    /\ device_id \in REVOKED_DEVICES \cup {0} \/ Cardinality(REVOKED_DEVICES) < MaxBackRevoked
    /\ REVOKED_TOKENS' = IF token # <<>> THEN REVOKED_TOKENS \cup {token} ELSE REVOKED_TOKENS
    /\ REVOKED_DEVICES' = IF device_id # 0 THEN REVOKED_DEVICES \cup {device_id}
                                           ELSE REVOKED_DEVICES
    /\ resp' = Response("simple_revoke", token, TRUE, "", NoPayload)
    /\ UNCHANGED <<now, issued, chainThumb, CURRENT_TOKEN_GENERATION,
                   mintGeneration, nonSimVars>>

\* bump_generation(reason): lines 288-295
bump_generation == CURRENT_TOKEN_GENERATION + 1

\* POST /admin/revoke-all: lines 921-936
revoke_all_tokens ==
    /\ Serving("simple")
    /\ CURRENT_TOKEN_GENERATION <= MaxBumps
    /\ CURRENT_TOKEN_GENERATION' = bump_generation
    /\ resp' = Response("revoke_all", <<>>, TRUE, "", NoPayload)
    /\ UNCHANGED <<now, issued, chainThumb, REVOKED_TOKENS, REVOKED_DEVICES,
                   mintGeneration, nonSimVars>>

\* GET /revocation-status/{token_hash}: revocation.py lines 89-103; the
\* handler reads the table and writes nothing
check_revocation_status(token_hash) ==
    [token_hash |-> token_hash,
     is_revoked |-> \E i \in DOMAIN revoked : revoked[i] = token_hash]

\* ------------------------------------------------- process start and stop
\* jwk.JWK.generate / Ed25519PrivateKey.generate(): a keypair never seen
\* before; the first one made is IssuerKey
FreshKey == IF keysMade = 0 THEN IssuerKey ELSE ForgerKey + keysMade

\* the backend process starts and imports token.py: lines 6-11
token_startup ==
    /\ proc = "down" /\ Idle
    /\ IF keyFile.content = "absent"
       THEN /\ keysMade < MaxKeys
            /\ loadedKey' = FreshKey
            /\ keyFile' = [content |-> "jwk", key |-> FreshKey]
            /\ keysMade' = keysMade + 1
            /\ proc' = "backend"
            /\ resp' = Response("startup", <<>>, TRUE, "", NoPayload)
       ELSE IF KeyFileParses
       THEN /\ loadedKey' = keyFile.key
            /\ proc' = "backend"
            /\ resp' = Response("startup", <<>>, TRUE, "", NoPayload)
            /\ UNCHANGED <<keyFile, keysMade>>
       ELSE \* from_json raises, the import fails and the process exits
            /\ resp' = Response("startup", <<>>, FALSE, "InvalidJWKValue", NoPayload)
            /\ UNCHANGED <<keyFile, loadedKey, proc, keysMade>>
    /\ UNCHANGED <<now, issued, devices, chainThumb, tableVars, workVars, jobVars, svcVars, simVars>>

\* generate_issuer_keypair(): simple_api.py lines 89-113; the keypair is kept
\* in the globals and no file is written
generate_issuer_keypair ==
    /\ loadedKey' = FreshKey
    /\ keysMade' = keysMade + 1
    /\ UNCHANGED keyFile

\* simple_api starts: load_existing_keypair() at line 274 (lines 49-87), then
\* the module-level assignments of lines 278-282
load_existing_keypair ==
    /\ proc = "down" /\ Idle
    /\ IF KeyFileParses
       THEN /\ loadedKey' = keyFile.key
            /\ UNCHANGED <<keyFile, keysMade>>
       ELSE \* except Exception: a missing or unreadable file
            /\ keysMade < MaxKeys
            /\ generate_issuer_keypair
    /\ proc' = "simple"
    /\ REVOKED_TOKENS' = {}
    /\ REVOKED_DEVICES' = {}
    /\ CURRENT_TOKEN_GENERATION' = 1
    /\ resp' = Response("startup", <<>>, TRUE, "", NoPayload)
    /\ UNCHANGED <<now, issued, devices, chainThumb, tableVars, workVars, jobVars, svcVars,
                   mintGeneration>>

\* the running process stops; what it held in memory is gone
shutdown ==
    /\ proc # "down" /\ Idle
    /\ proc' = "down"
    /\ loadedKey' = 0
    /\ UNCHANGED <<keyFile, keysMade, backVars, tableVars, workVars, jobVars, svcVars, simVars>>

\* the content of the key file is damaged on disk
key_file_damaged ==
    /\ Idle
    /\ KeyFileParses
    /\ keyFile' = [content |-> "corrupt", key |-> 0]
    /\ UNCHANGED <<loadedKey, proc, keysMade, backVars, tableVars, workVars, jobVars, svcVars,
                   simVars>>

\* ------------------------------------------- billing_simple.py: the calendar
\* timedelta(days=30) of check_usage_limit
PeriodDays == 30

\* days of the months the calendar runs through, from a January on
MonthLengths == <<31, 28, 31, 30>>

\* the first day (days count from 0) of the month that holds day d
RECURSIVE MonthStart(_, _, _)
MonthStart(d, m, first) ==
    IF m > Len(MonthLengths) \/ d < first + MonthLengths[m] THEN first
    ELSE MonthStart(d, m + 1, first + MonthLengths[m])

\* datetime.replace(day=1): the same time of day on the first of the month
replace_day1(dt) ==
    MonthStart(dt \div TicksPerDay, 1, 0) * TicksPerDay + (dt % TicksPerDay)

\* line 251: now >= client.usage_reset_date + timedelta(days=30)
ResetDue == utcnow >= usage_reset_date + PeriodDays * TicksPerDay

\* ------------------------- verify_with_billing.py verify_token_with_billing
\* lines 50-65, with validate_client_api_key (api_clients.py lines 29-59)
\* before them: the session loads the client row, check_usage_limit
\* (billing_simple.py lines 243-271) resets the month when due and compares
\* the usage it holds with the limit; over the limit the answer is 429
check_usage_limit(w) ==
    LET usage == IF ResetDue THEN 0 ELSE monthly_usage
    IN  /\ proc = "backend"
        /\ bpc[w] = "idle"
        /\ usage_records < MaxRequests
        /\ monthly_usage' = usage
        /\ usage_reset_date' = IF ResetDue THEN replace_day1(utcnow)
                                ELSE usage_reset_date
        /\ lastReset' = IF ResetDue THEN utcnow ELSE lastReset
        /\ IF usage >= PlanLimit
           THEN /\ bresp' = [bresp EXCEPT ![w] = 429]
                /\ UNCHANGED <<bpc, bclient>>
           ELSE /\ bpc' = [bpc EXCEPT ![w] = "checked"]
                /\ bclient' = [bclient EXCEPT ![w] = usage]
                /\ bresp' = [bresp EXCEPT ![w] = 0]
        /\ UNCHANGED <<usage_records, utcnow, nonBillVars>>

\* the status code of lines 67-166 for a token and a minimum age
BillingStatus(t, min_age) ==
    LET result == verify_result(t)
    IN  IF ~result.valid THEN 400
        ELSE IF result.payload.device_id # 0
                /\ ~\E row \in devices : row.id = result.payload.device_id
        THEN 404
        ELSE IF result.payload.device_id # 0
                /\ \E row \in devices : /\ row.id = result.payload.device_id
                                        /\ row.token_hash # TokenHash(t)
        THEN 401
        ELSE IF result.payload.age < min_age THEN 403
        ELSE 200

\* lines 67-181: the token is verified and record_usage (billing_simple.py
\* lines 273-293) adds a usage record and writes back the usage the session
\* holds plus one
verify_token_with_billing(w, t, min_age) ==
    /\ bpc[w] = "checked"
    /\ monthly_usage' = bclient[w] + 1
    /\ usage_records' = usage_records + 1
    /\ bresp' = [bresp EXCEPT ![w] = BillingStatus(t, min_age)]
    /\ bpc' = [bpc EXCEPT ![w] = "idle"]
    /\ bclient' = [bclient EXCEPT ![w] = 0]
    /\ UNCHANGED <<usage_reset_date, utcnow, lastReset, nonBillVars>>

\* min_age values of a request: the default 18 and a stricter 21
MinAges == {AgeOver, AgeOver + 3}

\* time passes on the billing calendar
day_passes ==
    /\ utcnow < MaxDays * TicksPerDay
    /\ utcnow' = utcnow + 1
    /\ UNCHANGED <<monthly_usage, usage_reset_date, usage_records, lastReset,
                   bpc, bclient, bresp, nonBillVars>>

\* the client registered at the time at: SimpleClient defaults (lines 73-74)
\* and the primary key of register_client (line 194)
ClientCreated(at) ==
    /\ utcnow = at
    /\ monthly_usage = 0
    /\ usage_reset_date = replace_day1(at)
    /\ usage_records = 0
    /\ lastReset = -1
    /\ bpc = [w \in Workers |-> "idle"]
    /\ bclient = [w \in Workers |-> 0]
    /\ bresp = [w \in Workers |-> 0]
    /\ api_keys = <<TRUE>>
    /\ kpc = [w \in Workers |-> "idle"]
    /\ ktarget = [w \in Workers |-> 0]
    /\ kresp = [w \in Workers |-> 0]

\* --------------------------------------------- api_clients.py: the API keys
\* the count of lines 179-182 and 219-222: active keys of the client
ActiveKeys == Cardinality({i \in DOMAIN api_keys : api_keys[i]})

\* DELETE /api-keys/{key_id}, lines 202-228, after validate_client_api_key
\* has looked up the caller's key: find the target, count the active keys
revoke_api_key_check(w, caller, key_id) ==
    /\ proc = "backend"
    /\ kpc[w] = "idle"
    /\ IF ~api_keys[caller]
       THEN /\ kresp' = [kresp EXCEPT ![w] = 401]
            /\ UNCHANGED <<kpc, ktarget>>
       ELSE IF key_id \notin DOMAIN api_keys
       THEN /\ kresp' = [kresp EXCEPT ![w] = 404]
            /\ UNCHANGED <<kpc, ktarget>>
       ELSE IF ActiveKeys <= 1
       THEN /\ kresp' = [kresp EXCEPT ![w] = 400]
            /\ UNCHANGED <<kpc, ktarget>>
       ELSE /\ kpc' = [kpc EXCEPT ![w] = "revoking"]
            /\ ktarget' = [ktarget EXCEPT ![w] = key_id]
            /\ kresp' = [kresp EXCEPT ![w] = 0]
    /\ UNCHANGED <<api_keys, nonAkVars>>

\* lines 230-233: target_key.is_active = False; db.commit()
revoke_api_key_commit(w) ==
    /\ kpc[w] = "revoking"
    /\ api_keys' = [api_keys EXCEPT ![ktarget[w]] = FALSE]
    /\ kresp' = [kresp EXCEPT ![w] = 200]
    /\ kpc' = [kpc EXCEPT ![w] = "idle"]
    /\ ktarget' = [ktarget EXCEPT ![w] = 0]
    /\ UNCHANGED nonAkVars

\* POST /api-keys, lines 169-188: count the active keys against the limit
create_api_key_check(w, caller) ==
    /\ proc = "backend"
    /\ kpc[w] = "idle"
    /\ Len(api_keys) < MaxApiKeys
    /\ IF ~api_keys[caller]
       THEN /\ kresp' = [kresp EXCEPT ![w] = 401]
            /\ UNCHANGED kpc
       ELSE IF ActiveKeys >= KeyLimit
       THEN /\ kresp' = [kresp EXCEPT ![w] = 400]
            /\ UNCHANGED kpc
       ELSE /\ kpc' = [kpc EXCEPT ![w] = "creating"]
            /\ kresp' = [kresp EXCEPT ![w] = 0]
    /\ UNCHANGED <<api_keys, ktarget, nonAkVars>>

\* lines 190-200 and billing_simple.py lines 198-222: the new row is committed
create_api_key_commit(w) ==
    /\ kpc[w] = "creating"
    /\ api_keys' = Append(api_keys, TRUE)
    /\ kresp' = [kresp EXCEPT ![w] = 200]
    /\ kpc' = [kpc EXCEPT ![w] = "idle"]
    /\ UNCHANGED <<ktarget, nonAkVars>>

\* ------------------------ production_api.py verify_api_key_and_rate_limit
\* the subscription statuses that line 199 turns away
Blocked == {"suspended", "cancelled"}

\* lines 166-222: the cached entry is trusted when there is one, else the key
\* and the company are looked up and the entry is cached; then the request
\* counter of the key is read
verify_api_key(w) ==
    /\ gpc[w] = "idle"
    /\ admitted < MaxAdmitted
    /\ IF ~auth_cache /\ ~key_is_active
       THEN /\ gresp' = [gresp EXCEPT ![w] = 401]
            /\ UNCHANGED <<auth_cache, gpc, gread>>
       ELSE IF ~auth_cache /\ subscription_status \in Blocked
       THEN /\ gresp' = [gresp EXCEPT ![w] = 402]
            /\ UNCHANGED <<auth_cache, gpc, gread>>
       ELSE /\ auth_cache' = TRUE
            /\ gread' = [gread EXCEPT ![w] = rate_count]
            /\ gpc' = [gpc EXCEPT ![w] = "authed"]
            /\ gresp' = [gresp EXCEPT ![w] = 0]
    /\ UNCHANGED <<key_is_active, subscription_status, rate_count, admitted, nonGateVars>>

\* lines 224-254: no counter read: setex(rate_key, 3600, 1); counter at the
\* limit: 429; else incr. quotaFull: the quota counter of the company has
\* reached 50000 (lines 239-245)
rate_limit(w, quotaFull) ==
    /\ gpc[w] = "authed"
    /\ gpc' = [gpc EXCEPT ![w] = "idle"]
    /\ gread' = [gread EXCEPT ![w] = 0]
    /\ IF gread[w] # 0 /\ gread[w] >= RateLimit
       THEN /\ gresp' = [gresp EXCEPT ![w] = 429]
            /\ UNCHANGED <<rate_count, admitted>>
       ELSE /\ rate_count' = IF gread[w] = 0 THEN 1 ELSE rate_count + 1
            /\ IF quotaFull
               THEN /\ gresp' = [gresp EXCEPT ![w] = 402]
                    /\ UNCHANGED admitted
               ELSE /\ gresp' = [gresp EXCEPT ![w] = 200]
                    /\ admitted' = admitted + 1
    /\ UNCHANGED <<key_is_active, subscription_status, auth_cache, nonGateVars>>

\* the 300 seconds of line 209 are over: Redis drops the cached entry
cache_expires ==
    /\ auth_cache
    /\ auth_cache' = FALSE
    /\ UNCHANGED <<key_is_active, subscription_status, rate_count, admitted,
                   gpc, gread, gresp, nonGateVars>>

\* the 3600 seconds of line 225 are over: Redis drops the counter and a new
\* window starts
rate_window_expires ==
    /\ rate_count # 0
    /\ rate_count' = 0
    /\ admitted' = 0
    /\ UNCHANGED <<key_is_active, subscription_status, auth_cache,
                   gpc, gread, gresp, nonGateVars>>

\* the key is deactivated in the database (APIKey.is_active)
key_deactivated ==
    /\ key_is_active
    /\ key_is_active' = FALSE
    /\ UNCHANGED <<subscription_status, auth_cache, rate_count, admitted,
                   gpc, gread, gresp, nonGateVars>>

\* the subscription of the company changes (Company.subscription_status)
subscription_changes(status) ==
    /\ status # subscription_status
    /\ subscription_status' = status
    /\ UNCHANGED <<key_is_active, auth_cache, rate_count, admitted,
                   gpc, gread, gresp, nonGateVars>>

\* ------------------------------------------- usage_tracker.py UsageTracker
\* the alert levels of _check_usage_alerts, in percent of the quota
AlertLevels == {80, 100, 150, 200}

\* _get_last_alert_level(company_id): lines 114-118
get_last_alert_level == 0

\* the branch of lines 66-112 taken at the usage u: the highest level reached
\* that is above the last level sent (0: no branch)
AlertBranch(u) ==
    LET reached == {l \in AlertLevels :
                       u * 100 >= l * monthly_quota /\ get_last_alert_level < l}
    IN  IF reached = {} THEN 0
        ELSE CHOOSE l \in reached : \A m \in reached : l >= m

\* track_api_usage lines 28-48: the usage is incremented and committed
track_api_usage(w) ==
    /\ apc[w] = "idle"
    /\ current_usage < MaxCalls
    /\ current_usage' = current_usage + 1
    /\ apc' = [apc EXCEPT ![w] = "committed"]
    /\ UNCHANGED <<monthly_quota, alerts_sent, nonAlertVars>>

\* line 51, _check_usage_alerts (lines 55-112) and _record_alert_sent (lines
\* 120-124, which stores nothing): the notification of the branch is sent
check_usage_alerts(w) ==
    /\ apc[w] = "committed"
    /\ apc' = [apc EXCEPT ![w] = "idle"]
    /\ alerts_sent' =
          IF monthly_quota <= 0 \/ AlertBranch(current_usage) = 0 THEN alerts_sent
          ELSE [alerts_sent EXCEPT ![AlertBranch(current_usage)] = @ + 1]
    /\ UNCHANGED <<monthly_quota, current_usage, nonAlertVars>>

\* the company signs up with the quota given to it; its first API key is
\* active and nothing is cached (b2b_portal/app.py)
CompanyCreated(quota) ==
    /\ key_is_active = TRUE
    /\ subscription_status = "trial"
    /\ auth_cache = FALSE
    /\ rate_count = 0
    /\ admitted = 0
    /\ gpc = [w \in Workers |-> "idle"]
    /\ gread = [w \in Workers |-> 0]
    /\ gresp = [w \in Workers |-> 0]
    /\ monthly_quota = quota
    /\ current_usage = 0
    /\ alerts_sent = [l \in AlertLevels |-> 0]
    /\ apc = [w \in Workers |-> "idle"]

RevInitVars ==
    /\ revoked = <<>>
    /\ chainRoot = ZeroRoot
    /\ wpc = [w \in Workers |-> "idle"]
    /\ whash = [w \in Workers |-> <<>>]
    /\ wsnap = [w \in Workers |-> <<>>]
    /\ wroot = [w \in Workers |-> <<>>]
    /\ wresp = [w \in Workers |-> NoResp]
    /\ abandoned = {}
    /\ jpc = "idle"
    /\ jleaves = <<>>
    /\ jout = "none"

\* the application app runs with the keypair of the first boot, which is
\* also the one in the key file
Running(app) ==
    /\ keyFile = [content |-> "jwk", key |-> IssuerKey]
    /\ loadedKey = IssuerKey
    /\ proc = app
    /\ keysMade = 1

RevInit == RevInitVars /\ BackInitVars /\ Running("backend") /\ ClientCreated(0) /\ CompanyCreated(MaxQuota)

SimpleInit == RevInitVars /\ BackInitVars /\ Running("simple") /\ ClientCreated(0) /\ CompanyCreated(MaxQuota)

\* a fresh deployment: nothing has run yet and there is no key file
KeysInit ==
    /\ RevInitVars
    /\ BackInitVars
    /\ ClientCreated(0) /\ CompanyCreated(MaxQuota)
    /\ keyFile = [content |-> "absent", key |-> 0]
    /\ loadedKey = 0
    /\ proc = "down"
    /\ keysMade = 0

RevNext ==
    \/ \E w \in Workers, h \in HashInputs : revoke_commit(w, h)
    \/ \E w \in Workers : revoke_query(w)
    \/ \E w \in Workers : revoke_publish(w)
    \/ \E w \in Workers : revoke_publish_failed(w)
    \/ \E w \in Workers : revoke_abandoned(w)
    \/ job_read
    \/ job_publish
    \/ job_publish_failed

SpecRevoke == RevInit /\ [][RevNext]_vars

\* POST /api/v1/verify-token served by two workers for one client
BillingNext ==
    \/ \E dev \in DeviceHashes : webauthn_register(dev)
    \/ send_response
    \/ \E w \in Workers : check_usage_limit(w)
    \/ \E w \in Workers, t \in TokenPool, min_age \in MinAges :
          verify_token_with_billing(w, t, min_age)

SpecBilling == RevInit /\ [][BillingNext]_vars

\* the client registers at some time of the first day of a January
CalendarInit ==
    /\ RevInitVars
    /\ BackInitVars
    /\ Running("backend")
    /\ \E at \in 0..(TicksPerDay - 1) : ClientCreated(at)
    /\ CompanyCreated(MaxQuota)

\* one request at a time over the months
CalendarNext ==
    \/ check_usage_limit(1)
    \/ \E t \in TokenPool, min_age \in MinAges : verify_token_with_billing(1, t, min_age)
    \/ day_passes

SpecCalendar == CalendarInit /\ [][CalendarNext]_vars

\* either application is up, with the same key file and the same anchor
VerifyInit ==
    /\ RevInitVars
    /\ BackInitVars
    /\ ClientCreated(0) /\ CompanyCreated(MaxQuota)
    /\ \E app \in {"backend", "simple"} : Running(app)

\* the verify handlers of both applications, with what they need to have
\* tokens to accept and to reject: one device registers
VerifyNext ==
    \/ webauthn_register(1)
    \/ \E d \in FreshDevices \cap {1} : simple_webauthn_register(d, FALSE, FALSE)
    \/ push_thumbprint
    \/ \E t \in TokenPool, apiKeyOk \in BOOLEAN, anchorUp \in BOOLEAN :
          verify_token(t, apiKeyOk, anchorUp)
    \/ \E t \in TokenPool : verify(t)
    \/ \E t \in SimplePool, byRelease \in BOOLEAN : simple_verify_token(t, byRelease)
    \/ check_usage_limit(1)
    \/ \E t \in TokenPool, min_age \in MinAges : verify_token_with_billing(1, t, min_age)
    \/ tick
    \/ send_response

SpecVerify == VerifyInit /\ [][VerifyNext]_vars

\* key requests of one client served by two workers
ApiKeysNext ==
    \/ \E w \in Workers, caller \in DOMAIN api_keys, key_id \in 1..MaxApiKeys :
          revoke_api_key_check(w, caller, key_id)
    \/ \E w \in Workers : revoke_api_key_commit(w)
    \/ \E w \in Workers, caller \in DOMAIN api_keys : create_api_key_check(w, caller)
    \/ \E w \in Workers : create_api_key_commit(w)

SpecApiKeys == RevInit /\ [][ApiKeysNext]_vars

\* requests with one API key served by two workers of production_api
GatewayNext ==
    \/ \E w \in Workers : verify_api_key(w)
    \/ \E w \in Workers, quotaFull \in BOOLEAN : rate_limit(w, quotaFull)
    \/ cache_expires
    \/ rate_window_expires
    \/ key_deactivated
    \/ \E status \in {"active"} \cup Blocked : subscription_changes(status)

SpecGateway == RevInit /\ [][GatewayNext]_vars

\* the company has any quota up to MaxQuota, or none set
AlertsInit ==
    /\ RevInitVars
    /\ BackInitVars
    /\ Running("backend")
    /\ ClientCreated(0)
    /\ \E quota \in 0..MaxQuota : CompanyCreated(quota)

\* API calls of one company tracked by two workers
AlertsNext ==
    \/ \E w \in Workers : track_api_usage(w)
    \/ \E w \in Workers : check_usage_alerts(w)

SpecAlerts == AlertsInit /\ [][AlertsNext]_vars

\* the backend serving one request at a time
BackNext ==
    \/ \E dev \in DeviceHashes : webauthn_register(dev)
    \/ \E t \in TokenPool, apiKeyOk \in BOOLEAN, anchorUp \in BOOLEAN :
          verify_token(t, apiKeyOk, anchorUp)
    \/ \E t \in TokenPool : verify(t)
    \/ \E t \in issued, sent \in BOOLEAN : revoke_token(TokenHash(t), sent)
    \/ push_thumbprint
    \/ foreign_setThumbprint
    \/ tick
    \/ send_response

SpecBackend == RevInit /\ [][BackNext]_vars

\* simple_api serving one request at a time
SimpleNext ==
    \/ \E d \in FreshDevices, push_to_blockchain \in BOOLEAN, sent \in BOOLEAN :
          simple_webauthn_register(d, push_to_blockchain, sent)
    \/ \E d \in DeviceHashes : debug_create_token(d)
    \/ \E t \in SimplePool, byRelease \in BOOLEAN : simple_verify_token(t, byRelease)
    \/ \E t \in issued \cup {<<>>}, d \in DeviceHashes \cup {0} : simple_revoke_token(t, d)
    \/ revoke_all_tokens
    \/ tick
    \/ send_response

SpecSimple == SimpleInit /\ [][SimpleNext]_vars

\* either application over a sequence of starts and stops
KeysNext ==
    \/ token_startup
    \/ load_existing_keypair
    \/ shutdown
    \/ key_file_damaged
    \/ \E dev \in DeviceHashes : webauthn_register(dev)
    \/ \E t \in TokenPool : verify(t)
    \/ \E t \in TokenPool, anchorUp \in BOOLEAN : verify_token(t, TRUE, anchorUp)
    \/ push_thumbprint
    \/ \E d \in FreshDevices, push_to_blockchain \in BOOLEAN, sent \in BOOLEAN :
          simple_webauthn_register(d, push_to_blockchain, sent)
    \/ \E t \in TokenPool : simple_verify_token(t, FALSE)
    \/ send_response

SpecKeys == KeysInit /\ [][KeysNext]_vars

\* ---------------------------------------------------- claims on the backend
\* the response in hand answers a verification request
IsVerifyResp == resp.op \in {"verify_token", "verify"}

\* the request was let through to the token checks: the API key was active
\* and the thumbprint on the anchor matched the local key
PassedGate ==
    resp.error \notin {"Invalid or inactive API key",
                       "Key integrity check failed - contact issuer"}

\* C1: a token whose hash is in the Revoked table is rejected by every
\* verification made after the revoke.
C1_RevokedTokenRejected ==
    (IsVerifyResp /\ TokenHash(resp.token) \in Range(revoked)) => ~resp.valid

\* C2: a verification answers valid only for a token that carries a signature
\* made with the issuer's key over its header and payload.
C2_ValidOnlyIfSigned ==
    (resp.op = "simple_verify" /\ resp.valid) =>
        /\ IsCompact(resp.token)
        /\ SignatureOf(resp.token) =
               Sign(IssuerKey, HeaderOf(resp.token), PayloadOf(resp.token))

\* C3: while the thumbprint on the anchor differs from the thumbprint of the
\* local issuer key, no verification accepts a token.
C3_TrustMismatchRejects ==
    (IsVerifyResp /\ chainThumb # current_thumbprint) => ~resp.valid

C6_BumpInvalidatesOlderTokens ==
    (/\ resp.op = "simple_verify"
     /\ resp.token \in DOMAIN mintGeneration
     /\ mintGeneration[resp.token] < CURRENT_TOKEN_GENERATION) => ~resp.valid

\* C7: revoking a token hash that is already in the Revoked table leaves the
\* table, and so the root computed over it, as the first revoke left them.
C7_RevokeIdempotent ==
    [][\A w \in Workers, h \in HashInputs :
          (revoke_commit(w, h) /\ h \in Range(revoked)) => revoked' = revoked]_vars

\* C8: the root a publisher computes over the rows it read is the same for
\* every order in which those rows were inserted (revoke_token and the job).
C8_RootOrderIndependent ==
    /\ \A w \in Workers :
          wpc[w] = "queried" =>
             \A p \in Permutations(DOMAIN wsnap[w]) :
                MerkleTreeRoot(Permuted(wsnap[w], p)) = wroot[w]
    /\ jpc = "read" =>
          \A p \in Permutations(DOMAIN jleaves) :
             JobRoot(Permuted(jleaves, p)) = JobRoot(jleaves)

\* C9: the root of the empty table is the all-zero sentinel, and the root a
\* publisher computes over a single row is SHA-256 of that one leaf, with no
\* pairing or duplication step applied.
C9_MerkleEdgeCases ==
    /\ revoked = <<>> =>
          /\ MerkleTreeRoot(revoked) = ZeroRoot
          /\ merkle_root(FromHexAll(revoked)) = ZeroRoot
    /\ \A w \in Workers :
          (wpc[w] = "queried" /\ Len(wsnap[w]) = 1) =>
             wroot[w] = Sha256(Encode(wsnap[w][1]))
    /\ (jpc = "read" /\ Len(jleaves) = 1) =>
          JobRoot(jleaves) = Sha256(jleaves[1])

C9_Witness ==
    /\ \E w \in Workers : wpc[w] = "queried" /\ Len(wsnap[w]) = 1
    /\ jpc = "read" /\ Len(jleaves) = 1

\* C10: once every revoke request in flight has completed with success, the
\* root last published on the anchor is the Merkle root of the whole table
\* (stated for tables without duplicate rows, so that it does not rest on C7).
C10_PublishedRootCoversSet ==
    ( /\ Cardinality(Range(revoked)) = Len(revoked)
      /\ \A w \in Workers : wpc[w] = "idle" /\ wresp[w].status # "500"
      /\ \E w \in Workers : wresp[w].status = "revoked"
      /\ jpc = "idle" /\ jout # "failed" )
    => chainRoot \in {MerkleTreeRoot(revoked), JobRoot(FromHexAll(revoked))}

C12_CorruptKeyAborts ==
    (resp.op = "startup" /\ keyFile.content = "corrupt") =>
        /\ ~resp.valid
        /\ proc = "down"
        /\ loadedKey = 0

\* C13: while the key file is not damaged, the keypair a running process
\* holds is the one generated at the first boot, and a token an application
\* handed out is still accepted by that application after any restarts.
C13_KeySurvivesRestart ==
    keyFile.content # "corrupt" =>
        /\ proc # "down" => loadedKey = IssuerKey
        /\ ( /\ resp.token \in issued
             /\ \/ resp.op = "verify" /\ Len(PayloadOf(resp.token)) = 4
                \/ resp.op = "simple_verify" /\ Len(PayloadOf(resp.token)) = 7 )
           => resp.valid

\* C14: as long as one keypair only has ever existed, the value on the anchor
\* (once pushed) is the thumbprint the verifier computes locally for that key,
\* and the kid of every token handed out is an encoding of that same value.
C14_OneThumbprint ==
    (keysMade = 1 /\ KeyFileParses) =>
        /\ chainThumb \in {ZeroRoot, current_thumbprint}
        /\ \A t \in issued :
              HeaderOf(t) \in {B64Url(current_thumbprint),
                               SubSeq(Hex(current_thumbprint), 1, 2)}

\* ------------------------------------------------ claims on the responses
\* the first condition of the decision procedure that a token fails, in the
\* order parse, signature, expiry
FailedCondition(t) ==
    IF ~IsCompact(t) \/ Len(PayloadOf(t)) # 4 THEN "Malformed"
    ELSE IF SignatureOf(t) # Sign(get_public_key, HeaderOf(t), PayloadOf(t))
         THEN "SignatureInvalid"
    ELSE IF time_time > ClaimsOf(t).exp * TicksPerSec THEN "Expired"
    ELSE "none"

\* C15: the reason of a rejection identifies the condition that failed: two
\* tokens that fail different conditions are never rejected with one and the
\* same reason.
C15_TypedReasons ==
    (resp.op = "verify_token" /\ PassedGate /\ ~resp.valid) =>
        \A t \in TokenPool :
            FailedCondition(t) \notin {"none", FailedCondition(resp.token)} =>
                verify_token_result(t, TRUE, TRUE).error # resp.error

\* C16: when a registration hands a token to the caller, the issuance
\* bookkeeping (the Device table) holds the SHA-256 hash of exactly that token.
C16_MintRecordsHash ==
    (resp.op \in {"register", "simple_register"} /\ resp.valid) =>
        \E row \in devices : row.token_hash = TokenHash(resp.token)

\* C17: a registration (mint) step leaves the anchor as it was: neither the
\* published thumbprint nor the published revocation root changes.
C17_MintLeavesAnchor ==
    [][( \/ \E dev \in DeviceHashes : webauthn_register(dev)
         \/ \E d \in DeviceHashes, push_to_blockchain \in BOOLEAN, sent \in BOOLEAN :
               simple_webauthn_register(d, push_to_blockchain, sent) )
       => (chainThumb' = chainThumb /\ chainRoot' = chainRoot)]_vars

C19_AnchorReadEveryVerify ==
    [][\A t \in TokenPool, anchorUp \in BOOLEAN :
          verify_token(t, TRUE, anchorUp) =>
             ( (resp'.error = "Key integrity check failed - contact issuer")
               <=> ~(anchorUp /\ chainThumb = current_thumbprint) )]_vars

C19_Witness ==
    /\ resp.op = "verify_token" /\ resp.token \in issued
    /\ resp.error = "Key integrity check failed - contact issuer"
    /\ chainThumb = Sha256(Encode(PublicJwk(ForgerKey)))

\* C20: an operation that attempts a publish which does not go through does
\* not report success to its caller.
C20_FailedPublishIsReported ==
    [][\A d \in DeviceHashes :
          simple_webauthn_register(d, TRUE, FALSE) => ~resp'.valid]_vars

\* number of rows of the Revoked table that hold the hash h
RowsOf(table, h) == Cardinality({i \in DOMAIN table : table[i] = h})

\* a revoke request whose publish fails or is abandoned: the step leaves the
\* table as it is with the request's row in it, and leaves the issuer key alone
AbandonKeepsLocalState ==
    \A w \in Workers :
       (revoke_publish_failed(w) \/ revoke_abandoned(w)) =>
          /\ revoked' = revoked
          /\ RowsOf(revoked', whash[w]) >= 1
          /\ RowsOf(revoked', whash[w]) = RowsOf(revoked, whash[w])
          /\ keyFile' = keyFile /\ loadedKey' = loadedKey
          /\ abandoned' \subseteq Range(revoked')

\* the first transaction sent after such a failure is over rows that include
\* the hash of the failed request
NextPublishCoversAbandoned ==
    /\ \A w \in Workers :
          revoke_publish(w) =>
             /\ abandoned \subseteq Range(wsnap[w])
             /\ chainRoot' = MerkleTreeRoot(wsnap[w])
    /\ job_publish =>
          /\ abandoned \subseteq {Hex(jleaves[i]) : i \in DOMAIN jleaves}
          /\ chainRoot' = JobRoot(jleaves)

\* C21: a revoke whose publish fails or is abandoned keeps its row in the
\* Revoked table, does not touch the issuer key, and the next transaction that
\* is sent carries a root over rows that include the hash of that request.
C21_AbandonedPublishSafe ==
    [][AbandonKeepsLocalState /\ NextPublishCoversAbandoned]_vars

\* ---------------------------------------------------- claims on the billing
\* C24: a request is served and recorded only while the stored monthly_usage
\* is below the limit of the plan, and the stored usage never exceeds it.
C24_UsageWithinLimit ==
    [][\A w \in Workers, t \in TokenPool, min_age \in MinAges :
          verify_token_with_billing(w, t, min_age) =>
             /\ monthly_usage < PlanLimit
             /\ monthly_usage' <= PlanLimit]_vars

\* C25: every request that passed the limit check adds one usage record and
\* makes monthly_usage grow by exactly one, whatever its status code.
C25_UsageRecordedOnce ==
    [][\A w \in Workers, t \in TokenPool, min_age \in MinAges :
          verify_token_with_billing(w, t, min_age) =>
             /\ usage_records' = usage_records + 1
             /\ monthly_usage' = monthly_usage + 1]_vars

\* C30: a reset of monthly_usage that discards recorded usage comes no sooner
\* than 30 days after the reset before it.
C30_ResetOncePerPeriod ==
    [][\A w \in Workers :
          (check_usage_limit(w) /\ ResetDue /\ lastReset # -1 /\ monthly_usage > 0) =>
             utcnow >= lastReset + PeriodDays * TicksPerDay]_vars

\* a step of one of the verify handlers
VerifyStep ==
    \/ \E t \in TokenPool, apiKeyOk \in BOOLEAN, anchorUp \in BOOLEAN :
          verify_token(t, apiKeyOk, anchorUp)
    \/ \E t \in TokenPool : verify(t)
    \/ \E t \in SimplePool, byRelease \in BOOLEAN : simple_verify_token(t, byRelease)
    \/ \E w \in Workers : check_usage_limit(w)
    \/ \E w \in Workers, t \in TokenPool, min_age \in MinAges :
          verify_token_with_billing(w, t, min_age)

\* C22: a verify request, accepted or rejected, leaves the issuer key, the
\* revoked rows and sets, the generation counter, the issuance records and
\* what the anchor publishes as they were; usage counters may change.
C22_VerifyLeavesCoreState ==
    [][VerifyStep =>
          /\ keyFile' = keyFile /\ loadedKey' = loadedKey
          /\ revoked' = revoked
          /\ REVOKED_TOKENS' = REVOKED_TOKENS /\ REVOKED_DEVICES' = REVOKED_DEVICES
          /\ CURRENT_TOKEN_GENERATION' = CURRENT_TOKEN_GENERATION
          /\ issued' = issued /\ devices' = devices
          /\ chainThumb' = chainThumb /\ chainRoot' = chainRoot]_vars

\* a billed verify was accepted and counted, and verify_token has rejected a
\* token, with the device row of the accepted token still in place
C22_Witness ==
    /\ bresp[1] = 200 /\ monthly_usage = 1
    /\ resp.op = "verify_token" /\ PassedGate /\ ~resp.valid
    /\ devices # {}

\* C23: over the same rows of the Revoked table, the root that revoke_token
\* computes is the root that update_revocation_root computes.
C23_SameRootBothPublishers ==
    \A w \in Workers :
       wpc[w] = "queried" => wroot[w] = JobRoot(FromHexAll(wsnap[w]))

\* --------------------------------------- claims on the keys and the gateway
\* C26: the client has at least one active API key and at most KeyLimit of them.
C26_KeepsAnActiveKey == ActiveKeys >= 1 /\ ActiveKeys <= KeyLimit

\* C27: a request made while the key is deactivated or the subscription is
\* suspended or cancelled is answered 401 or 402.
C27_DeactivatedKeyRejected ==
    [][\A w \in Workers :
          (verify_api_key(w) /\ (~key_is_active \/ subscription_status \in Blocked)) =>
             gresp'[w] \in {401, 402}]_vars

\* C28: the requests admitted for the key within one window are no more than
\* its rate_limit.
C28_RateLimitHolds == admitted <= RateLimit

\* C29: each alert level is notified at most once.
C29_AlertsNotDuplicated == \A l \in AlertLevels : alerts_sent[l] <= 1

=============================================================================
